---- MODULE Spec2Model ----
(***************************************************************************)
(* dns-benchmark: the benchmark execution core.                            *)
(*                                                                         *)
(*   BenchmarkEngine::run   src/benchmark/engine.rs  (scheduler)           *)
(*   benchmark_server       src/benchmark/engine.rs  (adaptive probe)      *)
(*   ServerResult, TimingResult, BenchmarkResult  src/benchmark/result.rs  *)
(*                                                                         *)
(* One probe task per server.  A task suspends at exactly two kinds of     *)
(* await: semaphore.acquire() and resolver.lookup_ip().  The code between  *)
(* two awaits touches only task-local data, so each action below is one    *)
(* such stretch; the accesses to shared data after the last lookup (the    *)
(* push under the mutex, and the release of the permit and of the Arc at   *)
(* the end of the task) are actions of their own.                          *)
(*                                                                         *)
(* Option<T> is modelled as a sequence of length at most one: None is <<>>,*)
(* Some(x) is <<x>>.  A String is a sequence of one-character strings.     *)
(* Durations are natural numbers in the unit of Duration's resolution.     *)
(***************************************************************************)
EXTENDS Integers, Sequences, FiniteSets, TLC

VARIABLES
    config,                 \* BenchmarkEngine.config
    servers,                \* BenchmarkEngine.servers
    mainpc,                 \* position of run(): "spawn", "join", "returned", "panicked"
    spawned,                \* number of servers the spawn loop has taken
    joined,                 \* number of tasks join_next() has yielded
    ret,                    \* Option<BenchmarkResult>: what run() returned
    queried,                \* Option<[query, answer]>: the last call made outside
                            \*           the run (a query of the returned
                            \*           BenchmarkResult, classification, server
                            \*           collection, config merge) and what it gave
    permits,                \* permits available in the semaphore
    arc_refs,               \* strong count of the Arc around results
    results,                \* the Vec<ServerResult> behind the mutex
    pc,                     \* per task: "unspawned", "acquire", "lookup", "push",
                            \*           "finish", "done", "panicked"
    permit,                 \* per task: _permit is alive
    pb,                     \* per task: Option<position of the progress bar>
    measurements,           \* per task: benchmark_server's measurements
    current_timeout_ms,     \* per task: benchmark_server's current_timeout_ms
    consecutive_failures,   \* per task: benchmark_server's consecutive_failures
    inflight,               \* per task: timeouts of the resolvers whose lookups are issued
                            \*           and have not returned; the task awaits the first
    lookups,                \* per task: history of the lookups that returned,
                            \*           [timeout, outcome] in issuance order
    server_result           \* per task: Option<ServerResult> returned by benchmark_server

vars == <<config, servers, mainpc, spawned, joined, ret, queried, permits, arc_refs, results,
          pc, permit, pb, measurements, current_timeout_ms, consecutive_failures,
          inflight, lookups, server_result>>

taskvars == <<pc, permit, pb, measurements, current_timeout_ms, consecutive_failures,
              inflight, lookups, server_result>>

-----------------------------------------------------------------------------
(* Bounds of the model *)

MaxServers == 3
MaxWorkers == 2
MaxRequests == 2
MaxLookups == 4
MaxProbeRequests == 18
MaxOther == 2
MaxPairRequests == 9
MaxMeasurements == 4
MaxSourceLen == 2

-----------------------------------------------------------------------------
(* Constants of the program *)

REDUCE_TIMEOUT_AFTER_FAILURES == 8
REDUCED_TIMEOUT_MS == 500
MINIMIZE_TIMEOUT_AFTER_FAILURES == 16
MINIMAL_TIMEOUT_MS == 100

\* Duration::MAX: larger than any duration a measurement holds.
DurationMax == 2147483647

None == <<>>
Some(x) == <<x>>
IsSome(o) == Len(o) = 1
Unwrap(o) == o[1]
UnwrapOr(o, d) == IF IsSome(o) THEN o[1] ELSE d

Min(a, b) == IF a <= b THEN a ELSE b
Max(a, b) == IF a >= b THEN a ELSE b

-----------------------------------------------------------------------------
(* Strings *)

UpperCase == <<"A","B","C","D","E","F","G","H","I","J","K","L","M",
               "N","O","P","Q","R","S","T","U","V","W","X","Y","Z">>
LowerCase == <<"a","b","c","d","e","f","g","h","i","j","k","l","m",
               "n","o","p","q","r","s","t","u","v","w","x","y","z">>

\* char::to_lowercase on the letters A-Z; every other character is kept.
LowerOf == [k \in 1..26 |-> LowerCase[k]]
UpperIndex == [c \in {UpperCase[k] : k \in 1..26} |-> CHOOSE k \in 1..26 : UpperCase[k] = c]

to_lowercase(str) ==
    [i \in 1..Len(str) |->
        IF str[i] \in DOMAIN UpperIndex THEN LowerOf[UpperIndex[str[i]]] ELSE str[i]]

contains(str, pat) ==
    \E i \in 1..(Len(str) - Len(pat) + 1) : SubSeq(str, i, i + Len(pat) - 1) = pat

StrTimeout == <<"t","i","m","e","o","u","t">>
StrTimedOut == <<"t","i","m","e","d"," ","o","u","t">>

\* Error texts the resolver reports in the runs of the model.
ErrRequestTimedOut == <<"T","i","m","e","d"," ","o","u","t">>
ErrRefused == <<"r","e","f","u","s","e","d">>
ErrorTexts == {ErrRequestTimedOut, ErrRefused}

-----------------------------------------------------------------------------
(* result.rs *)

Success(duration, ip) == [kind |-> "Success", duration |-> duration, ip |-> ip]
Failure(error) == [kind |-> "Failure", error |-> error]

\* is_timeout comparing the text as it is, without lower-casing it
is_timeout_cased(m) ==
    IF m.kind = "Success" THEN FALSE
    ELSE contains(m.error, StrTimeout) \/ contains(m.error, StrTimedOut)

\* lines 130-138
is_timeout(m) ==
    IF m.kind = "Success" THEN FALSE
    ELSE LET lower == to_lowercase(m.error)
         IN  contains(lower, StrTimeout) \/ contains(lower, StrTimedOut)

\* Fold keeping the address of the fastest success instead of the last one
RECURSIVE FoldFastestIp(_, _)
FoldFastestIp(ms, n) ==
    IF n = 0
    THEN [successful |-> 0, total_time |-> 0, min_time |-> None, max_time |-> None,
          resolved_ip |-> None, last_error |-> None]
    ELSE LET a == FoldFastestIp(ms, n - 1)
             m == ms[n]
         IN  IF m.kind = "Success"
             THEN [a EXCEPT !.successful = a.successful + 1,
                            !.total_time = a.total_time + m.duration,
                            !.resolved_ip = IF IsSome(a.min_time) /\ Unwrap(a.min_time) <= m.duration
                                            THEN a.resolved_ip
                                            ELSE Some(m.ip),
                            !.min_time = Some(IF IsSome(a.min_time)
                                              THEN Min(Unwrap(a.min_time), m.duration)
                                              ELSE m.duration),
                            !.max_time = Some(IF IsSome(a.max_time)
                                              THEN Max(Unwrap(a.max_time), m.duration)
                                              ELSE m.duration)]
             ELSE [a EXCEPT !.last_error = Some(m.error)]

\* Fold in which a success clears the error kept from an earlier failure
RECURSIVE FoldClearingError(_, _)
FoldClearingError(ms, n) ==
    IF n = 0
    THEN [successful |-> 0, total_time |-> 0, min_time |-> None, max_time |-> None,
          resolved_ip |-> None, last_error |-> None]
    ELSE LET a == FoldClearingError(ms, n - 1)
             m == ms[n]
         IN  IF m.kind = "Success"
             THEN [a EXCEPT !.successful = a.successful + 1,
                            !.total_time = a.total_time + m.duration,
                            !.resolved_ip = Some(m.ip),
                            !.last_error = None,
                            !.min_time = Some(IF IsSome(a.min_time)
                                              THEN Min(Unwrap(a.min_time), m.duration)
                                              ELSE m.duration),
                            !.max_time = Some(IF IsSome(a.max_time)
                                              THEN Max(Unwrap(a.max_time), m.duration)
                                              ELSE m.duration)]
             ELSE [a EXCEPT !.last_error = Some(m.error)]

\* The fold of from_measurements over the first n measurements.
RECURSIVE Fold(_, _)
Fold(ms, n) ==
    IF n = 0
    THEN [successful |-> 0, total_time |-> 0, min_time |-> None, max_time |-> None,
          resolved_ip |-> None, last_error |-> None]
    ELSE LET a == Fold(ms, n - 1)
             m == ms[n]
         IN  IF m.kind = "Success"
             THEN [a EXCEPT !.successful = a.successful + 1,
                            !.total_time = a.total_time + m.duration,
                            !.resolved_ip = Some(m.ip),
                            !.min_time = Some(IF IsSome(a.min_time)
                                              THEN Min(Unwrap(a.min_time), m.duration)
                                              ELSE m.duration),
                            !.max_time = Some(IF IsSome(a.max_time)
                                              THEN Max(Unwrap(a.max_time), m.duration)
                                              ELSE m.duration)]
             ELSE [a EXCEPT !.last_error = Some(m.error)]

\* from_measurements giving the number of successes as the total
from_measurements_total_of_successes(server, ms) ==
    LET a == Fold(ms, Len(ms))
    IN  [server |-> server,
         resolved_ip |-> a.resolved_ip,
         total_requests |-> a.successful,
         successful_requests |-> a.successful,
         min_time |-> a.min_time,
         max_time |-> a.max_time,
         avg_time |-> IF a.successful > 0
                      THEN Some(a.total_time \div a.successful)
                      ELSE None,
         last_error |-> a.last_error]

\* from_measurements counting every measurement as a successful request
from_measurements_counting_all(server, ms) ==
    LET a == Fold(ms, Len(ms))
    IN  [server |-> server,
         resolved_ip |-> a.resolved_ip,
         total_requests |-> Len(ms),
         successful_requests |-> Len(ms),
         min_time |-> a.min_time,
         max_time |-> a.max_time,
         avg_time |-> IF a.successful > 0
                      THEN Some(a.total_time \div a.successful)
                      ELSE None,
         last_error |-> a.last_error]

\* from_measurements averaging over all requests, failed ones included
from_measurements_avg_of_total(server, ms) ==
    LET a == Fold(ms, Len(ms))
    IN  [server |-> server,
         resolved_ip |-> a.resolved_ip,
         total_requests |-> Len(ms),
         successful_requests |-> a.successful,
         min_time |-> a.min_time,
         max_time |-> a.max_time,
         avg_time |-> IF a.successful > 0
                      THEN Some(a.total_time \div Len(ms))
                      ELSE None,
         last_error |-> a.last_error]

\* from_measurements giving a zero average when nothing succeeded
from_measurements_zero_avg(server, ms) ==
    LET a == Fold(ms, Len(ms))
    IN  [server |-> server,
         resolved_ip |-> a.resolved_ip,
         total_requests |-> Len(ms),
         successful_requests |-> a.successful,
         min_time |-> a.min_time,
         max_time |-> a.max_time,
         avg_time |-> IF a.successful > 0
                      THEN Some(a.total_time \div a.successful)
                      ELSE Some(0),
         last_error |-> a.last_error]

from_measurements(server, ms) ==
    LET a == Fold(ms, Len(ms))
    IN  [server |-> server,
         resolved_ip |-> a.resolved_ip,
         total_requests |-> Len(ms),
         successful_requests |-> a.successful,
         min_time |-> a.min_time,
         max_time |-> a.max_time,
         avg_time |-> IF a.successful > 0
                      THEN Some(a.total_time \div a.successful)
                      ELSE None,
         last_error |-> a.last_error]

\* success_rate without the test for total_requests == 0: 0.0 / 0.0
success_rate_unguarded(r) ==
    [num |-> r.successful_requests * 100, den |-> r.total_requests]

\* lines 82-88.  The f64 is kept as the exact fraction num / den.
success_rate(r) ==
    IF r.total_requests = 0
    THEN [num |-> 0, den |-> 1]
    ELSE [num |-> r.successful_requests * 100, den |-> r.total_requests]

\* all_failed that asks whether any request failed
all_failed_any(r) == r.successful_requests < r.total_requests

\* lines 104-106
all_failed(r) == r.successful_requests = 0

\* `rate >= percent` for a success rate held as a fraction
at_least(rate, percent) == rate.num >= percent * rate.den

\* sort_key giving a server without successes the smallest key
sort_key_zero(r) == UnwrapOr(r.avg_time, 0)

\* lines 109-111
sort_key(r) == UnwrapOr(r.avg_time, DurationMax)

\* Vec::sort_by_key is a stable sort: x goes behind every element whose key
\* is not larger.
\* The insertion of an unstable sort: x goes in front of the elements whose
\* key equals its own
RECURSIVE InsertByKeyUnstable(_, _)
InsertByKeyUnstable(sorted, x) ==
    IF sorted = <<>> THEN <<x>>
    ELSE IF sort_key(sorted[Len(sorted)]) < sort_key(x)
         THEN Append(sorted, x)
         ELSE Append(InsertByKeyUnstable(SubSeq(sorted, 1, Len(sorted) - 1), x),
                     sorted[Len(sorted)])

RECURSIVE InsertByKey(_, _)
InsertByKey(sorted, x) ==
    IF sorted = <<>> THEN <<x>>
    ELSE IF sort_key(sorted[Len(sorted)]) <= sort_key(x)
         THEN Append(sorted, x)
         ELSE Append(InsertByKey(SubSeq(sorted, 1, Len(sorted) - 1), x),
                     sorted[Len(sorted)])

RECURSIVE sort_by_key(_)
sort_by_key(s) ==
    IF s = <<>> THEN <<>>
    ELSE InsertByKey(sort_by_key(SubSeq(s, 1, Len(s) - 1)), s[Len(s)])

\* fastest returning the last element of the list
fastest_last(b) == IF b.servers = <<>> THEN None ELSE Some(b.servers[Len(b.servers)])

\* lines 156-158: self.servers.first()
fastest(b) == IF b.servers = <<>> THEN None ELSE Some(b.servers[1])

is_fully_successful(s) == at_least(success_rate(s), 100)

\* fully_successful keeping every server that has a success
fully_successful_some(b) == SelectSeq(b.servers, LAMBDA s : ~all_failed(s))

\* lines 161-163
fully_successful(b) == SelectSeq(b.servers, is_fully_successful)

\* lines 166-168
completely_failed(b) == SelectSeq(b.servers, all_failed)

-----------------------------------------------------------------------------
(* benchmark/mod.rs *)

\* DnsServer, with addr split into ip and port
DnsServer(name, ip, port, source) ==
    [name |-> name, ip |-> ip, port |-> port, source |-> source]

\* The dedup loop keyed on the whole socket address, port included
RECURSIVE push_unseen_addr(_, _)
push_unseen_addr(acc, list) ==
    IF list = <<>> THEN acc
    ELSE push_unseen_addr(
            IF \E i \in 1..Len(acc) :
                  acc[i].ip = Head(list).ip /\ acc[i].port = Head(list).port
            THEN acc ELSE Append(acc, Head(list)),
            Tail(list))

\* lines 29-33, 39-43, 55-57: `if seen_ips.insert(server.ip()) { servers.push(server) }`
\* for each server of list; seen_ips holds the addresses of acc
RECURSIVE push_unseen(_, _)
push_unseen(acc, list) ==
    IF list = <<>> THEN acc
    ELSE push_unseen(
            IF \E i \in 1..Len(acc) : acc[i].ip = Head(list).ip
            THEN acc ELSE Append(acc, Head(list)),
            Tail(list))

\* lines 18-67.  base, system and gateway are what load_custom_servers or
\* get_builtin_servers, get_system_dns_servers and get_gateway_dns_server
\* return: [ok, servers], with at most one server from the gateway.
collect_servers(c, base, system, gateway) ==
    IF ~base.ok THEN [ok |-> FALSE, servers |-> <<>>]
    ELSE LET s1 == push_unseen(<<>>, base.servers)
             s2 == IF ~c.skip_system /\ system.ok
                   THEN push_unseen(s1, system.servers) ELSE s1
             s3 == IF ~c.skip_gateway /\ gateway.ok
                   THEN push_unseen(s2, gateway.servers) ELSE s2
         IN  [ok |-> TRUE, servers |-> s3]

-----------------------------------------------------------------------------
(* config.rs *)

timeout_ms(c) == c.timeout * 1000

DEFAULT_WORKERS == 16
DEFAULT_REQUESTS == 50
DEFAULT_TIMEOUT_SECS == 2

\* lines 67-83: Config::default()
DefaultConfig ==
    [domain |-> "google.com", workers |-> DEFAULT_WORKERS, requests |-> DEFAULT_REQUESTS,
     timeout |-> DEFAULT_TIMEOUT_SECS, protocol |-> "Udp", name_server_ip |-> "V4",
     lookup_ip |-> "V4", format |-> "Table", style |-> "Rounded",
     custom_servers |-> None, skip_system |-> FALSE, skip_gateway |-> FALSE,
     disable_adaptive_timeout |-> FALSE]

\* merge assigning the three flags like the other fields
merge_assigning_flags(c, other) ==
    [domain |-> IF IsSome(other.domain) THEN Unwrap(other.domain) ELSE c.domain,
     workers |-> IF IsSome(other.workers) THEN Unwrap(other.workers) ELSE c.workers,
     requests |-> IF IsSome(other.requests) THEN Unwrap(other.requests) ELSE c.requests,
     timeout |-> IF IsSome(other.timeout) THEN Unwrap(other.timeout) ELSE c.timeout,
     protocol |-> IF IsSome(other.protocol) THEN Unwrap(other.protocol) ELSE c.protocol,
     name_server_ip |-> IF IsSome(other.name_server_ip)
                        THEN Unwrap(other.name_server_ip) ELSE c.name_server_ip,
     lookup_ip |-> IF IsSome(other.lookup_ip) THEN Unwrap(other.lookup_ip) ELSE c.lookup_ip,
     format |-> IF IsSome(other.format) THEN Unwrap(other.format) ELSE c.format,
     style |-> IF IsSome(other.style) THEN Unwrap(other.style) ELSE c.style,
     custom_servers |-> IF IsSome(other.custom_servers)
                        THEN Some(Unwrap(other.custom_servers)) ELSE c.custom_servers,
     skip_system |-> other.skip_system,
     skip_gateway |-> other.skip_gateway,
     disable_adaptive_timeout |-> other.disable_adaptive_timeout]

\* lines 168-209: Config::merge, as the Config that self becomes
merge(c, other) ==
    [domain |-> IF IsSome(other.domain) THEN Unwrap(other.domain) ELSE c.domain,
     workers |-> IF IsSome(other.workers) THEN Unwrap(other.workers) ELSE c.workers,
     requests |-> IF IsSome(other.requests) THEN Unwrap(other.requests) ELSE c.requests,
     timeout |-> IF IsSome(other.timeout) THEN Unwrap(other.timeout) ELSE c.timeout,
     protocol |-> IF IsSome(other.protocol) THEN Unwrap(other.protocol) ELSE c.protocol,
     name_server_ip |-> IF IsSome(other.name_server_ip)
                        THEN Unwrap(other.name_server_ip) ELSE c.name_server_ip,
     lookup_ip |-> IF IsSome(other.lookup_ip) THEN Unwrap(other.lookup_ip) ELSE c.lookup_ip,
     format |-> IF IsSome(other.format) THEN Unwrap(other.format) ELSE c.format,
     style |-> IF IsSome(other.style) THEN Unwrap(other.style) ELSE c.style,
     custom_servers |-> IF IsSome(other.custom_servers)
                        THEN Some(Unwrap(other.custom_servers)) ELSE c.custom_servers,
     skip_system |-> IF other.skip_system THEN TRUE ELSE c.skip_system,
     skip_gateway |-> IF other.skip_gateway THEN TRUE ELSE c.skip_gateway,
     disable_adaptive_timeout |-> IF other.disable_adaptive_timeout
                                  THEN TRUE ELSE c.disable_adaptive_timeout]

-----------------------------------------------------------------------------
(* The resolver: what a lookup can return *)

LookupOutcomes ==
    {[ok |-> TRUE, duration |-> 10, ips |-> <<"ipA">>],
     [ok |-> TRUE, duration |-> 20, ips |-> <<"ipB", "ipA">>],
     [ok |-> TRUE, duration |-> 10, ips |-> <<>>]}
    \cup {[ok |-> FALSE, error |-> e] : e \in ErrorTexts}

\* A server that is down answers every lookup with the same timeout failure.
Sustained == [ok |-> FALSE, error |-> ErrRequestTimedOut]

\* The outcomes the model lets the next lookup of a task have: all of them,
\* until OtherLimit lookups of the run have returned something else than the
\* sustained timeout failure; from then on only that one.  A run of at most
\* MaxLookups lookups is explored with every outcome at every lookup.
OtherCount(t) == Cardinality({k \in 1..Len(lookups[t]) : lookups[t][k].outcome # Sustained})
OtherLimit == IF Len(servers) * config.requests <= MaxLookups THEN MaxLookups ELSE MaxOther
RECURSIVE OtherTotal(_)
OtherTotal(n) == IF n = 0 THEN 0 ELSE OtherTotal(n - 1) + OtherCount(n)
Offered(t) == IF OtherTotal(MaxServers) < OtherLimit THEN LookupOutcomes ELSE {Sustained}

-----------------------------------------------------------------------------
(* engine.rs: benchmark_server *)

Adaptive == ~config.disable_adaptive_timeout
base_timeout_ms == timeout_ms(config)

\* OnSuccess with the timeout recovering by doubling instead of at once
OnSuccessGradual(cf, cur) ==
    [consecutive_failures |-> 0,
     current_timeout_ms |-> IF ~config.disable_adaptive_timeout
                            THEN Min(cur * 2, timeout_ms(config)) ELSE cur]

\* lines 172-175: the state after a lookup returned Ok
OnSuccess(cf, cur) ==
    [consecutive_failures |-> 0,
     current_timeout_ms |-> IF ~config.disable_adaptive_timeout
                            THEN base_timeout_ms ELSE cur]

\* OnFailure with both thresholds compared by > instead of >=
OnFailureLate(cf, cur, timing) ==
    IF ~config.disable_adaptive_timeout /\ is_timeout(timing)
    THEN LET n == cf + 1
         IN  [consecutive_failures |-> n,
              current_timeout_ms |->
                 IF n > MINIMIZE_TIMEOUT_AFTER_FAILURES THEN MINIMAL_TIMEOUT_MS
                 ELSE IF n > REDUCE_TIMEOUT_AFTER_FAILURES THEN Min(cur, REDUCED_TIMEOUT_MS)
                 ELSE cur]
    ELSE [consecutive_failures |-> cf, current_timeout_ms |-> cur]

\* OnFailure with the second stage written like the first, as a minimum
OnFailureMinimal(cf, cur, timing) ==
    IF ~config.disable_adaptive_timeout /\ is_timeout(timing)
    THEN LET n == cf + 1
         IN  [consecutive_failures |-> n,
              current_timeout_ms |->
                 IF n >= MINIMIZE_TIMEOUT_AFTER_FAILURES THEN Min(cur, MINIMAL_TIMEOUT_MS)
                 ELSE IF n >= REDUCE_TIMEOUT_AFTER_FAILURES THEN Min(cur, REDUCED_TIMEOUT_MS)
                 ELSE cur]
    ELSE [consecutive_failures |-> cf, current_timeout_ms |-> cur]

\* OnFailure that does not look at disable_adaptive_timeout
OnFailureAlways(cf, cur, timing) ==
    IF is_timeout(timing)
    THEN LET n == cf + 1
         IN  [consecutive_failures |-> n,
              current_timeout_ms |->
                 IF n >= MINIMIZE_TIMEOUT_AFTER_FAILURES THEN MINIMAL_TIMEOUT_MS
                 ELSE IF n >= REDUCE_TIMEOUT_AFTER_FAILURES THEN Min(cur, REDUCED_TIMEOUT_MS)
                 ELSE cur]
    ELSE [consecutive_failures |-> cf, current_timeout_ms |-> cur]

\* OnFailure counting strictly consecutive timeouts: any other failure
\* starts the streak again
OnFailureStrict(cf, cur, timing) ==
    IF ~config.disable_adaptive_timeout /\ is_timeout(timing)
    THEN LET n == cf + 1
         IN  [consecutive_failures |-> n,
              current_timeout_ms |->
                 IF n >= MINIMIZE_TIMEOUT_AFTER_FAILURES THEN MINIMAL_TIMEOUT_MS
                 ELSE IF n >= REDUCE_TIMEOUT_AFTER_FAILURES THEN Min(cur, REDUCED_TIMEOUT_MS)
                 ELSE cur]
    ELSE [consecutive_failures |-> 0, current_timeout_ms |-> cur]

\* lines 185-193: the state after a lookup returned Err, timing its measurement
OnFailure(cf, cur, timing) ==
    IF ~config.disable_adaptive_timeout /\ is_timeout(timing)
    THEN LET n == cf + 1
         IN  [consecutive_failures |-> n,
              current_timeout_ms |->
                 IF n >= MINIMIZE_TIMEOUT_AFTER_FAILURES THEN MINIMAL_TIMEOUT_MS
                 ELSE IF n >= REDUCE_TIMEOUT_AFTER_FAILURES THEN Min(cur, REDUCED_TIMEOUT_MS)
                 ELSE cur]
    ELSE [consecutive_failures |-> cf, current_timeout_ms |-> cur]

\* The loop running one time too few
LoopContinuesShort(n) == n + 1 < config.requests

\* The loop `for _ in 0..config.requests`: more to do after n measurements.
LoopContinues(n) == n < config.requests

\* An acquire that never waits
CanAcquireAlways(p) == TRUE

\* Semaphore::acquire completes with p permits available.
CanAcquire(p) == p > 0

\* A permit that is never given back
ReleaseLeak(p) == p

\* The permits available after a SemaphorePermit is dropped.
Release(p) == p + 1

\* The tasks of a run, one per server, and the task slots of the model.
Tasks == 1..Len(servers)
TaskIds == 1..MaxServers

-----------------------------------------------------------------------------
(* Initial states *)

SchedulerConfigs ==
    [workers : 0..MaxWorkers, requests : 0..MaxRequests, timeout : {1},
     disable_adaptive_timeout : {FALSE}, format : {"Table"}]

\* The runs of the scheduler the model explores: up to MaxServers servers and
\* MaxRequests requests per server, and no more than MaxLookups lookups in all.
SchedulerRuns ==
    {r \in SchedulerConfigs \X {[i \in 1..n |-> i] : n \in 0..MaxServers} :
        Len(r[2]) * r[1].requests <= MaxLookups}

ProbeConfigs ==
    [workers : {1}, requests : {MaxProbeRequests}, timeout : {0, 2},
     disable_adaptive_timeout : BOOLEAN, format : {"Json"}]

ProbeRuns == ProbeConfigs \X {<<1>>}

\* Two servers probed side by side, long enough for the timeout of one to be
\* reduced.
PairConfigs ==
    [workers : {2}, requests : {MaxPairRequests}, timeout : {2},
     disable_adaptive_timeout : {FALSE}, format : {"Json"}]

PairRuns == PairConfigs \X {<<1, 2>>}

\* BenchmarkEngine::new(config, servers) followed by run() up to the spawn loop
InitWith(runs) ==
    /\ \E r \in runs : config = r[1] /\ servers = r[2]
    /\ mainpc = "spawn"
    /\ spawned = 0
    /\ joined = 0
    /\ ret = None
    /\ queried = None
    /\ permits = config.workers
    /\ arc_refs = 1
    /\ results = <<>>
    /\ pc = [t \in TaskIds |-> "unspawned"]
    /\ permit = [t \in TaskIds |-> FALSE]
    /\ pb = [t \in TaskIds |-> None]
    /\ measurements = [t \in TaskIds |-> <<>>]
    /\ current_timeout_ms = [t \in TaskIds |-> base_timeout_ms]
    /\ consecutive_failures = [t \in TaskIds |-> 0]
    /\ inflight = [t \in TaskIds |-> None]
    /\ lookups = [t \in TaskIds |-> <<>>]
    /\ server_result = [t \in TaskIds |-> None]

Init == InitWith(SchedulerRuns)

InitProbe == InitWith(ProbeRuns)

InitPair == InitWith(PairRuns)

\* One server probed with and without its progress bar: the table format has
\* one, every other format has none.
SinkConfigs ==
    [workers : {1}, requests : {MaxPairRequests}, timeout : {2},
     disable_adaptive_timeout : {FALSE}, format : {"Table", "Json"}]

SinkRuns == SinkConfigs \X {<<1>>}

InitSink == InitWith(SinkRuns)

\* Error texts is_timeout is applied to.  These hold "timeout" or "timed out"
\* in some mix of upper and lower case:
\*   "timeout", "request timed out", "Connection timed out", "DNS TIMEOUT",
\*   "Timed Out.", "xtimeoutx", "op TimeOut"
TimeoutTexts ==
    {<<"t","i","m","e","o","u","t">>,
     <<"r","e","q","u","e","s","t"," ","t","i","m","e","d"," ","o","u","t">>,
     <<"C","o","n","n","e","c","t","i","o","n"," ","t","i","m","e","d"," ","o","u","t">>,
     <<"D","N","S"," ","T","I","M","E","O","U","T">>,
     <<"T","i","m","e","d"," ","O","u","t",".">>,
     <<"x","t","i","m","e","o","u","t","x">>,
     <<"o","p"," ","T","i","m","e","O","u","t">>}

\* and these hold neither:
\*   "", "network error", "server refused", "timedout", "time out",
\*   "timed  out", "timeou", "imeout", "time-out", "t i m e o u t"
OtherTexts ==
    {<<>>,
     <<"n","e","t","w","o","r","k"," ","e","r","r","o","r">>,
     <<"s","e","r","v","e","r"," ","r","e","f","u","s","e","d">>,
     <<"t","i","m","e","d","o","u","t">>,
     <<"t","i","m","e"," ","o","u","t">>,
     <<"t","i","m","e","d"," "," ","o","u","t">>,
     <<"t","i","m","e","o","u">>,
     <<"i","m","e","o","u","t">>,
     <<"t","i","m","e","-","o","u","t">>,
     <<"t"," ","i"," ","m"," ","e"," ","o"," ","u"," ","t">>}

ClassifiedTimings ==
    {Failure(e) : e \in TimeoutTexts \cup OtherTexts}
    \cup {Success(10, "ipA"), Success(20, "ipB")}

\* benchmark_server at line 185 with the timing of the lookup that just
\* returned, after no, 7 or 15 timeout failures in a row (none when the
\* adaptive timeout is disabled, which never counts them).
InitClassify ==
    /\ \E d \in BOOLEAN :
          config = [workers |-> 1, requests |-> MaxProbeRequests, timeout |-> 1,
                    disable_adaptive_timeout |-> d, format |-> "Json"]
    /\ servers = <<1>>
    /\ mainpc = "join"
    /\ spawned = 1
    /\ joined = 0
    /\ ret = None
    /\ queried = None
    /\ permits = 0
    /\ arc_refs = 2
    /\ results = <<>>
    /\ pc = [t \in TaskIds |-> IF t = 1 THEN "lookup" ELSE "unspawned"]
    /\ permit = [t \in TaskIds |-> t = 1]
    /\ pb = [t \in TaskIds |-> None]
    /\ \E m \in ClassifiedTimings :
          measurements = [t \in TaskIds |-> IF t = 1 THEN <<m>> ELSE <<>>]
    /\ \E cf \in IF Adaptive THEN {0, 7, 15} ELSE {0} :
          /\ consecutive_failures = [t \in TaskIds |-> IF t = 1 THEN cf ELSE 0]
          /\ current_timeout_ms =
                [t \in TaskIds |->
                    IF t = 1 /\ cf >= REDUCE_TIMEOUT_AFTER_FAILURES
                    THEN Min(base_timeout_ms, REDUCED_TIMEOUT_MS)
                    ELSE base_timeout_ms]
    /\ inflight = [t \in TaskIds |-> None]
    /\ lookups = [t \in TaskIds |-> <<>>]
    /\ server_result = [t \in TaskIds |-> None]

\* What the sources of servers can give: lists of up to MaxSourceLen servers
\* over two addresses, or an error.  Only a custom file names a port.
ServersFrom(source, ports) ==
    {DnsServer(source, ip, port, source) : ip \in {"ip1", "ip2"}, port \in ports}

ListsOf(S, maxlen) == UNION {[1..n -> S] : n \in 0..maxlen}

SourceError == [ok |-> FALSE, servers |-> <<>>]

BaseAnswers(c) ==
    IF IsSome(c.custom_servers)
    THEN {[ok |-> TRUE, servers |-> l] :
             l \in ListsOf(ServersFrom("Custom", {53, 5353}), MaxSourceLen)}
         \cup {SourceError}
    ELSE {[ok |-> TRUE, servers |-> l] :
             l \in ListsOf(ServersFrom("Builtin", {53}), MaxSourceLen)}

SystemAnswers ==
    {[ok |-> TRUE, servers |-> l] : l \in ListsOf(ServersFrom("System", {53}), MaxSourceLen)}
    \cup {SourceError}

GatewayAnswers ==
    {[ok |-> TRUE, servers |-> l] : l \in ListsOf(ServersFrom("Gateway", {53}), 1)}
    \cup {SourceError}

\* The configurations Config::load_or_default gives in the model: the
\* default one, with any of the three flags and a custom servers file set in
\* the stored file.
LoadedConfigs ==
    {[DefaultConfig EXCEPT !.custom_servers = cs, !.skip_system = a,
                           !.skip_gateway = b, !.disable_adaptive_timeout = d] :
        cs \in {None, Some("stored.txt")}, a \in BOOLEAN, b \in BOOLEAN, d \in BOOLEAN}

\* The overrides of the command line: each option absent or given with a
\* value other than the default, each flag absent or present.
ConfigOverrides ==
    [domain : {None, Some("test.com")}, workers : {None, Some(4)},
     requests : {None, Some(100)}, timeout : {None, Some(5)},
     protocol : {None, Some("Tcp")}, name_server_ip : {None, Some("V6")},
     lookup_ip : {None, Some("V6")}, format : {None, Some("Json")},
     style : {None, Some("Ascii")}, custom_servers : {None, Some("servers.txt")},
     skip_system : BOOLEAN, skip_gateway : BOOLEAN, disable_adaptive_timeout : BOOLEAN]

\* main.rs line 98: the configuration is loaded, nothing is merged yet.
InitMerge ==
    /\ config \in LoadedConfigs
    /\ servers = <<>>
    /\ mainpc = "spawn"
    /\ spawned = 0
    /\ joined = 0
    /\ ret = None
    /\ queried = None
    /\ permits = 0
    /\ arc_refs = 1
    /\ results = <<>>
    /\ pc = [t \in TaskIds |-> "unspawned"]
    /\ permit = [t \in TaskIds |-> FALSE]
    /\ pb = [t \in TaskIds |-> None]
    /\ measurements = [t \in TaskIds |-> <<>>]
    /\ current_timeout_ms = [t \in TaskIds |-> 0]
    /\ consecutive_failures = [t \in TaskIds |-> 0]
    /\ inflight = [t \in TaskIds |-> None]
    /\ lookups = [t \in TaskIds |-> <<>>]
    /\ server_result = [t \in TaskIds |-> None]

\* main() before collect_servers: the configuration is loaded, no engine yet.
InitCollect ==
    /\ config \in [custom_servers : {None, Some("servers.txt")},
                    skip_system : BOOLEAN, skip_gateway : BOOLEAN]
    /\ servers = <<>>
    /\ mainpc = "spawn"
    /\ spawned = 0
    /\ joined = 0
    /\ ret = None
    /\ queried = None
    /\ permits = 0
    /\ arc_refs = 1
    /\ results = <<>>
    /\ pc = [t \in TaskIds |-> "unspawned"]
    /\ permit = [t \in TaskIds |-> FALSE]
    /\ pb = [t \in TaskIds |-> None]
    /\ measurements = [t \in TaskIds |-> <<>>]
    /\ current_timeout_ms = [t \in TaskIds |-> 0]
    /\ consecutive_failures = [t \in TaskIds |-> 0]
    /\ inflight = [t \in TaskIds |-> None]
    /\ lookups = [t \in TaskIds |-> <<>>]
    /\ server_result = [t \in TaskIds |-> None]

\* The measurements from_measurements is applied to: successes of two
\* durations and two addresses, failures of two error texts.
TimingResults ==
    {Success(d, ip) : d \in {10, 25}, ip \in {"ipA", "ipB"}}
    \cup {Failure(e) : e \in {ErrRequestTimedOut, ErrRefused}}

MeasurementVectors ==
    UNION {[1..n -> TimingResults] : n \in 0..MaxMeasurements}

\* ServerResult::from_measurements about to be called for server 1 on a
\* vector of measurements; nothing else of the engine is running.
InitAgg ==
    /\ config = [workers |-> 1, requests |-> 0, timeout |-> 1,
                 disable_adaptive_timeout |-> FALSE, format |-> "Json"]
    /\ servers = <<1>>
    /\ mainpc = "spawn"
    /\ spawned = 0
    /\ joined = 0
    /\ ret = None
    /\ queried = None
    /\ permits = config.workers
    /\ arc_refs = 1
    /\ results = <<>>
    /\ pc = [t \in TaskIds |-> "unspawned"]
    /\ permit = [t \in TaskIds |-> FALSE]
    /\ pb = [t \in TaskIds |-> None]
    /\ \E ms \in MeasurementVectors :
          measurements = [t \in TaskIds |-> IF t = 1 THEN ms ELSE <<>>]
    /\ current_timeout_ms = [t \in TaskIds |-> base_timeout_ms]
    /\ consecutive_failures = [t \in TaskIds |-> 0]
    /\ inflight = [t \in TaskIds |-> None]
    /\ lookups = [t \in TaskIds |-> <<>>]
    /\ server_result = [t \in TaskIds |-> None]

-----------------------------------------------------------------------------
(* engine.rs: BenchmarkEngine::run, the main task *)

\* lines 58-95: one turn of `for server in self.servers`
Spawn ==
    /\ mainpc = "spawn"
    /\ spawned < Len(servers)
    /\ spawned' = spawned + 1
    /\ arc_refs' = arc_refs + 1
    /\ pc' = [pc EXCEPT ![spawned + 1] = "acquire"]
    /\ UNCHANGED <<config, servers, queried, mainpc, joined, ret, permits, results, permit, pb,
                   measurements, current_timeout_ms, consecutive_failures, inflight,
                   lookups, server_result>>

\* line 95: the spawn loop ends
SpawnEnd ==
    /\ mainpc = "spawn"
    /\ spawned = Len(servers)
    /\ mainpc' = "join"
    /\ UNCHANGED <<config, servers, queried, spawned, joined, ret, permits, arc_refs, results>>
    /\ UNCHANGED taskvars

Terminated == {t \in Tasks : pc[t] \in {"done", "panicked"}}

\* line 98: join_next() yields a task that has ended (Ok or a JoinError)
JoinNext ==
    /\ mainpc = "join"
    /\ joined < Cardinality(Terminated)
    /\ joined' = joined + 1
    /\ UNCHANGED <<config, servers, queried, mainpc, spawned, ret, permits, arc_refs, results>>
    /\ UNCHANGED taskvars

\* The join loop written as an `if`: it ends after the first task it yields
JoinSetEmptyEarly == joined >= 1 \/ spawned = 0

\* The JoinSet is empty: join_next() yields None.
JoinSetEmpty == joined = spawned

\* lines 98-113: the join loop ends, the results are unwrapped, sorted, returned
Return ==
    /\ mainpc = "join"
    /\ JoinSetEmpty
    /\ IF arc_refs = 1
       THEN /\ mainpc' = "returned"
            /\ ret' = Some([servers |-> sort_by_key(results),
                            requests_per_server |-> config.requests])
       ELSE /\ mainpc' = "panicked"
            /\ ret' = ret
    /\ UNCHANGED <<config, servers, queried, spawned, joined, permits, arc_refs, results>>
    /\ UNCHANGED taskvars

\* A query of the BenchmarkResult that run() returned, through &self
Query(name, answer) ==
    /\ mainpc = "returned"
    /\ queried' = Some([query |-> name, answer |-> answer])
    /\ UNCHANGED <<config, servers, mainpc, spawned, joined, ret, permits, arc_refs,
                   results>>
    /\ UNCHANGED taskvars

\* output/table.rs line 84: result.fastest()
Fastest == Query("fastest", fastest(Unwrap(ret)))

FullySuccessful == Query("fully_successful", fully_successful(Unwrap(ret)))

CompletelyFailed == Query("completely_failed", completely_failed(Unwrap(ret)))

-----------------------------------------------------------------------------
(* engine.rs: the probe task of servers[t] *)

\* The lookups left in flight when the awaited one has returned.
AfterReturn(fl) == IF fl = <<>> THEN <<>> ELSE Tail(fl)

\* A loop that issues its next two lookups without awaiting the first
IssueAhead(fl, cur) == fl \o <<cur, cur>>

\* lines 159-167: a resolver is made with the current timeout and its lookup
\* is issued and awaited
Issue(fl, cur) == Append(fl, cur)

\* benchmark_server from a point where ms, cf and cur are its measurements,
\* consecutive_failures and current_timeout_ms, up to its next await or its
\* return: lines 158-167, or line 206.
Proceed(t, ms, cf, cur) ==
    /\ measurements' = [measurements EXCEPT ![t] = ms]
    /\ consecutive_failures' = [consecutive_failures EXCEPT ![t] = cf]
    /\ current_timeout_ms' = [current_timeout_ms EXCEPT ![t] = cur]
    /\ IF LoopContinues(Len(ms))
       THEN /\ pc' = [pc EXCEPT ![t] = "lookup"]
            /\ inflight' = [inflight EXCEPT ![t] = Issue(AfterReturn(@), cur)]
            /\ server_result' = server_result
       ELSE /\ pc' = [pc EXCEPT ![t] = "push"]
            /\ inflight' = [inflight EXCEPT ![t] = AfterReturn(@)]
            /\ server_result' = [server_result EXCEPT
                                    ![t] = Some(from_measurements(servers[t], ms))]

\* lines 66-85 and 151-167: the permit is acquired, the progress bar made,
\* benchmark_server entered
Acquire(t) ==
    /\ pc[t] = "acquire"
    /\ CanAcquire(permits)
    /\ permits' = permits - 1
    /\ permit' = [permit EXCEPT ![t] = TRUE]
    /\ pb' = [pb EXCEPT ![t] = IF config.format = "Table" THEN Some(0) ELSE None]
    /\ Proceed(t, <<>>, 0, base_timeout_ms)
    /\ lookups' = lookups
    /\ UNCHANGED <<config, servers, queried, mainpc, spawned, joined, ret, arc_refs, results>>

\* lines 201-203
Inc(p) == IF IsSome(p) THEN Some(Unwrap(p) + 1) ELSE None

\* lines 167-179, 199-204: the awaited lookup returns Ok with at least one address
LookupOk(t) ==
    /\ pc[t] = "lookup"
    /\ \E o \in Offered(t) :
        /\ o.ok /\ o.ips # <<>>
        /\ lookups' = [lookups EXCEPT
                          ![t] = Append(@, [timeout |-> Head(inflight[t]), outcome |-> o])]
        /\ LET st == OnSuccess(consecutive_failures[t], current_timeout_ms[t])
           IN  Proceed(t, Append(measurements[t], Success(o.duration, o.ips[1])),
                       st.consecutive_failures, st.current_timeout_ms)
    /\ pb' = [pb EXCEPT ![t] = Inc(@)]
    /\ UNCHANGED <<config, servers, queried, mainpc, spawned, joined, ret, permits, arc_refs,
                   results, permit>>

\* An Ok answer without an address recorded as a failed request
LookupEmptyRecorded(t) ==
    /\ pc[t] = "lookup"
    /\ \E o \in Offered(t) :
        /\ o.ok /\ o.ips = <<>>
        /\ lookups' = [lookups EXCEPT
                          ![t] = Append(@, [timeout |-> Head(inflight[t]), outcome |-> o])]
    /\ Proceed(t, Append(measurements[t], Failure(ErrRefused)),
               consecutive_failures[t], current_timeout_ms[t])
    /\ pb' = [pb EXCEPT ![t] = Inc(@)]
    /\ UNCHANGED <<config, servers, queried, mainpc, spawned, joined, ret, permits, arc_refs,
                   results, permit>>

\* lines 167-177: the awaited lookup returns Ok with no address; expect() panics,
\* the task unwinds and drops its permit and its Arc
LookupEmpty(t) ==
    /\ pc[t] = "lookup"
    /\ \E o \in Offered(t) :
        /\ o.ok /\ o.ips = <<>>
        /\ lookups' = [lookups EXCEPT
                          ![t] = Append(@, [timeout |-> Head(inflight[t]), outcome |-> o])]
    /\ LET st == OnSuccess(consecutive_failures[t], current_timeout_ms[t])
       IN  /\ consecutive_failures' = [consecutive_failures EXCEPT ![t] = st.consecutive_failures]
           /\ current_timeout_ms' = [current_timeout_ms EXCEPT ![t] = st.current_timeout_ms]
    /\ pc' = [pc EXCEPT ![t] = "panicked"]
    /\ inflight' = [inflight EXCEPT ![t] = None]
    /\ permit' = [permit EXCEPT ![t] = FALSE]
    /\ permits' = Release(permits)
    /\ arc_refs' = arc_refs - 1
    /\ UNCHANGED <<config, servers, queried, mainpc, spawned, joined, ret, results, pb,
                   measurements, server_result>>

\* The longest failure streak of any probe, as a counter shared by all tasks
\* would hold it.
RECURSIVE SharedFailures(_)
SharedFailures(n) ==
    IF n = 0 THEN 0 ELSE Max(SharedFailures(n - 1), consecutive_failures[n])

\* LookupErr on adaptive state that is shared between the probes
LookupErrShared(t) ==
    /\ pc[t] = "lookup"
    /\ \E o \in Offered(t) :
        /\ ~o.ok
        /\ lookups' = [lookups EXCEPT
                          ![t] = Append(@, [timeout |-> Head(inflight[t]), outcome |-> o])]
        /\ LET timing == Failure(o.error)
               st == OnFailure(SharedFailures(MaxServers), current_timeout_ms[t], timing)
           IN  Proceed(t, Append(measurements[t], timing),
                       st.consecutive_failures, st.current_timeout_ms)
    /\ pb' = [pb EXCEPT ![t] = Inc(@)]
    /\ UNCHANGED <<config, servers, queried, mainpc, spawned, joined, ret, permits, arc_refs,
                   results, permit>>

\* lines 167-170, 180-204: the awaited lookup returns Err
LookupErr(t) ==
    /\ pc[t] = "lookup"
    /\ \E o \in Offered(t) :
        /\ ~o.ok
        /\ lookups' = [lookups EXCEPT
                          ![t] = Append(@, [timeout |-> Head(inflight[t]), outcome |-> o])]
        /\ LET timing == Failure(o.error)
               st == OnFailure(consecutive_failures[t], current_timeout_ms[t], timing)
           IN  Proceed(t, Append(measurements[t], timing),
                       st.consecutive_failures, st.current_timeout_ms)
    /\ pb' = [pb EXCEPT ![t] = Inc(@)]
    /\ UNCHANGED <<config, servers, queried, mainpc, spawned, joined, ret, permits, arc_refs,
                   results, permit>>

\* Push that waits until the progress bar shows every request
PushBehindBar(t) ==
    /\ pc[t] = "push"
    /\ pb[t] = Some(config.requests)
    /\ results' = Append(results, Unwrap(server_result[t]))
    /\ pc' = [pc EXCEPT ![t] = "finish"]
    /\ UNCHANGED <<config, servers, queried, mainpc, spawned, joined, ret, permits, arc_refs,
                   permit, pb, measurements, current_timeout_ms, consecutive_failures,
                   inflight, lookups, server_result>>

\* line 88: results.lock().push(server_result)
Push(t) ==
    /\ pc[t] = "push"
    /\ results' = Append(results, Unwrap(server_result[t]))
    /\ pc' = [pc EXCEPT ![t] = "finish"]
    /\ UNCHANGED <<config, servers, queried, mainpc, spawned, joined, ret, permits, arc_refs,
                   permit, pb, measurements, current_timeout_ms, consecutive_failures,
                   inflight, lookups, server_result>>

\* lines 91-94: the progress bar is cleared and the task ends, dropping its
\* permit and its Arc
Finish(t) ==
    /\ pc[t] = "finish"
    /\ pb' = [pb EXCEPT ![t] = None]
    /\ permit' = [permit EXCEPT ![t] = FALSE]
    /\ permits' = Release(permits)
    /\ arc_refs' = arc_refs - 1
    /\ pc' = [pc EXCEPT ![t] = "done"]
    /\ UNCHANGED <<config, servers, queried, mainpc, spawned, joined, ret, results,
                   measurements, current_timeout_ms, consecutive_failures,
                   inflight, lookups, server_result>>

TaskStep(t) ==
    \/ Acquire(t)
    \/ LookupOk(t)
    \/ LookupEmpty(t)
    \/ LookupErr(t)
    \/ Push(t)
    \/ Finish(t)

MainStep ==
    \/ Spawn
    \/ SpawnEnd
    \/ JoinNext
    \/ Return
    \/ Fastest
    \/ FullySuccessful
    \/ CompletelyFailed

Next ==
    \/ MainStep
    \/ \E t \in TaskIds : TaskStep(t)

Spec == Init /\ [][Next]_vars

SpecProbe == InitProbe /\ [][Next]_vars

SpecPair == InitPair /\ [][Next]_vars

SpecSink == InitSink /\ [][Next]_vars

\* result.rs line 35: from_measurements is called on the measurements of
\* server 1
Aggregate ==
    /\ server_result[1] = None
    /\ server_result' = [server_result EXCEPT
                            ![1] = Some(from_measurements(servers[1], measurements[1]))]
    /\ UNCHANGED <<config, servers, queried, mainpc, spawned, joined, ret, permits, arc_refs,
                   results, pc, permit, pb, measurements, current_timeout_ms,
                   consecutive_failures, inflight, lookups>>

NextAgg == Aggregate

\* engine.rs lines 173-176 and 185-193: the timing is classified and the
\* adaptive state follows
Classify ==
    /\ queried = None
    /\ LET m == measurements[1][1]
           st == IF m.kind = "Success"
                 THEN OnSuccess(consecutive_failures[1], current_timeout_ms[1])
                 ELSE OnFailure(consecutive_failures[1], current_timeout_ms[1], m)
       IN  /\ queried' = Some([query |-> "is_timeout", answer |-> is_timeout(m)])
           /\ consecutive_failures' =
                 [consecutive_failures EXCEPT ![1] = st.consecutive_failures]
           /\ current_timeout_ms' =
                 [current_timeout_ms EXCEPT ![1] = st.current_timeout_ms]
    /\ UNCHANGED <<config, servers, mainpc, spawned, joined, ret, permits, arc_refs,
                   results, pc, permit, pb, measurements, inflight, lookups,
                   server_result>>

NextClassify == Classify

\* main.rs line 110: collect_servers(&config)
Collect ==
    /\ queried = None
    /\ \E base \in BaseAnswers(config), system \in SystemAnswers, gateway \in GatewayAnswers :
          LET answer == collect_servers(config, base, system, gateway)
          IN  /\ queried' = Some([query |-> "collect_servers",
                                  given |-> [base |-> base, system |-> system,
                                             gateway |-> gateway],
                                  answer |-> answer])
              /\ servers' = answer.servers
    /\ UNCHANGED <<config, mainpc, spawned, joined, ret, permits, arc_refs, results>>
    /\ UNCHANGED taskvars

NextCollect == Collect

\* main.rs line 99: config.merge(&overrides)
Merge ==
    /\ queried = None
    /\ \E other \in ConfigOverrides :
          /\ config' = merge(config, other)
          /\ queried' = Some([query |-> "merge",
                              given |-> [self |-> config, other |-> other],
                              times |-> 1,
                              answer |-> merge(config, other)])
    /\ UNCHANGED <<servers, mainpc, spawned, joined, ret, permits, arc_refs, results>>
    /\ UNCHANGED taskvars

\* config.merge(&overrides) once more with the same overrides
MergeAgain ==
    /\ IsSome(queried)
    /\ Unwrap(queried).times = 1
    /\ config' = merge(config, Unwrap(queried).given.other)
    /\ queried' = Some([Unwrap(queried) EXCEPT !.times = 2])
    /\ UNCHANGED <<servers, mainpc, spawned, joined, ret, permits, arc_refs, results>>
    /\ UNCHANGED taskvars

NextMerge == Merge \/ MergeAgain

SpecMerge == InitMerge /\ [][NextMerge]_vars

SpecCollect == InitCollect /\ [][NextCollect]_vars

SpecClassify == InitClassify /\ [][NextClassify]_vars

SpecAgg == InitAgg /\ [][NextAgg]_vars

\* The runtime does not stop while run() or a task can take a step: a task
\* that is ready is polled, and a lookup that is awaited returns.
Fairness == WF_vars(Next)

FairSpec == Init /\ [][Next]_vars /\ Fairness

-----------------------------------------------------------------------------
(* Properties *)

Admitted == {t \in Tasks : permit[t]}
Ended(t) == pc[t] \in {"done", "panicked"}
LastLookup(t) == lookups[t][Len(lookups[t])]
Returned == mainpc = "returned"

\* C1: at most config.workers probe tasks are past the admission gate at any
\* time, and a lookup is in flight only for a task that holds a permit.
C1_AtMostWAdmitted ==
    /\ Cardinality(Admitted) <= config.workers
    /\ \A t \in Tasks : pc[t] \in {"lookup", "push", "finish"} => permit[t]
    /\ \A t \in Tasks : IsSome(inflight[t]) => permit[t]

C1_Witness ==
    /\ config.workers = 2
    /\ Len(servers) = 3
    /\ Cardinality({t \in Tasks : IsSome(inflight[t])}) = 2
    /\ \E t \in Tasks : pc[t] = "acquire"

\* C2: run() gets past its join loop only when every probe task has ended,
\* and there is no BenchmarkResult for the caller before run() has returned.
C2_ReturnAfterAllEnded ==
    /\ mainpc \in {"returned", "panicked"} => \A t \in Tasks : Ended(t)
    /\ IsSome(ret) => Returned /\ \A t \in Tasks : Ended(t)

C2_Witness ==
    /\ Returned
    /\ Len(servers) = 3
    /\ Len(Unwrap(ret).servers) = 3

\* C3: the BenchmarkResult that run() returns holds exactly one ServerResult
\* for each server it was given.
C3_ExactlyOnePerServer ==
    Returned =>
        LET rs == Unwrap(ret).servers
        IN  /\ Len(rs) = Len(servers)
            /\ \A t \in Tasks :
                  Cardinality({i \in 1..Len(rs) : rs[i].server = servers[t]}) = 1

\* C4: with at least one worker, every probe is eventually admitted and run()
\* eventually returns.
C4_EventuallyReturns ==
    (config.workers >= 1) =>
        <>(Returned /\ \A t \in Tasks : pc[t] \notin {"unspawned", "acquire"})

C4_Witness ==
    /\ Returned
    /\ config.workers = 1
    /\ Len(servers) = 3
    /\ \A t \in Tasks : Len(lookups[t]) = 1

Records(m, o) ==
    IF o.ok
    THEN o.ips # <<>> /\ m = Success(o.duration, o.ips[1])
    ELSE m = Failure(o.error)

\* C5: a probe that has left benchmark_server has issued exactly
\* config.requests lookups and holds exactly config.requests measurements,
\* the k-th being the outcome of the k-th lookup.
C5_ExactlyRMeasurements ==
    \A t \in Tasks :
        pc[t] \in {"push", "finish", "done", "panicked"} =>
            /\ Len(lookups[t]) = config.requests
            /\ Len(measurements[t]) = config.requests
            /\ \A k \in 1..Len(measurements[t]) :
                  Records(measurements[t][k], lookups[t][k].outcome)

FailureReturned(t) ==
    /\ Len(lookups'[t]) = Len(lookups[t]) + 1
    /\ ~lookups'[t][Len(lookups'[t])].outcome.ok

AllLookupsFailed == \A t \in Tasks : \A k \in 1..Len(lookups[t]) : ~lookups[t][k].outcome.ok

TaskState(t) ==
    <<pc[t], permit[t], pb[t], measurements[t], current_timeout_ms[t],
      consecutive_failures[t], inflight[t], lookups[t], server_result[t]>>

\* C6: a lookup that fails adds a Failure measurement with its error text and
\* nothing else: the probe goes on to its next request when one is left, no
\* other task and nothing of run() changes; and a run whose lookups all fail
\* returns one ServerResult per server with total_requests = config.requests
\* and successful_requests = 0.
C6_FailureOnlyRecorded ==
    /\ [][\A t \in Tasks : FailureReturned(t) =>
            /\ measurements'[t] =
                  Append(measurements[t], Failure(lookups'[t][Len(lookups'[t])].outcome.error))
            /\ IF Len(measurements'[t]) < config.requests
               THEN pc'[t] = "lookup" /\ IsSome(inflight'[t])
               ELSE pc'[t] = "push"
            /\ permit'[t]
            /\ \A u \in Tasks \ {t} : TaskState(u)' = TaskState(u)
            /\ UNCHANGED <<mainpc, spawned, joined, ret, permits, arc_refs, results>>]_vars
    /\ [](mainpc # "panicked")
    /\ [](Returned /\ AllLookupsFailed =>
            LET rs == Unwrap(ret).servers
            IN  /\ Len(rs) = Len(servers)
                /\ \A i \in 1..Len(rs) :
                      /\ rs[i].total_requests = config.requests
                      /\ rs[i].successful_requests = 0)

C6_Witness ==
    /\ Returned
    /\ AllLookupsFailed
    /\ Len(servers) = 2
    /\ config.requests = 2
    /\ Len(Unwrap(ret).servers) = 2
    /\ \A t \in Tasks : Len(lookups[t]) = 2

\* C7: with adaptive timeout enabled, a lookup issued while the streak is
\* below 8 gets the base timeout, and a lookup issued while the streak is at
\* least 8 and below 16 gets min(timeout of the previous lookup, 500 ms),
\* which is at most 500 ms.
C7_ReducedAfterEight ==
    \A t \in Tasks :
        (Adaptive /\ pc[t] = "lookup") =>
            /\ consecutive_failures[t] < REDUCE_TIMEOUT_AFTER_FAILURES =>
                  inflight[t] = Some(base_timeout_ms)
            /\ (/\ consecutive_failures[t] >= REDUCE_TIMEOUT_AFTER_FAILURES
                /\ consecutive_failures[t] < MINIMIZE_TIMEOUT_AFTER_FAILURES) =>
                  /\ lookups[t] # <<>>
                  /\ inflight[t] = Some(Min(LastLookup(t).timeout, 500))
                  /\ Unwrap(inflight[t]) <= 500

C7_Witness ==
    \E t \in Tasks :
        /\ Adaptive
        /\ base_timeout_ms = 2000
        /\ pc[t] = "lookup"
        /\ consecutive_failures[t] = 8
        /\ LastLookup(t).timeout = 2000
        /\ inflight[t] = Some(500)

\* C8: with adaptive timeout enabled, every lookup issued while the streak is
\* 16 or more gets exactly 100 ms; the streak stays there until a lookup
\* succeeds.
C8_MinimalAfterSixteen ==
    \A t \in Tasks :
        (Adaptive /\ pc[t] = "lookup"
            /\ consecutive_failures[t] >= MINIMIZE_TIMEOUT_AFTER_FAILURES) =>
                inflight[t] = Some(100)

C8_Witness ==
    \E t \in Tasks :
        /\ Adaptive
        /\ base_timeout_ms = 2000
        /\ pc[t] = "lookup"
        /\ consecutive_failures[t] = 16
        /\ Len(lookups[t]) = 17
        /\ LastLookup(t).outcome = [ok |-> FALSE, error |-> ErrRefused]
        /\ LastLookup(t).timeout = 100
        /\ inflight[t] = Some(100)

\* C9: with adaptive timeout enabled, right after a lookup succeeded the
\* streak is 0 and the current timeout is the base timeout, and the next
\* lookup is issued with the base timeout.
C9_ResetOnSuccess ==
    \A t \in Tasks :
        (Adaptive /\ lookups[t] # <<>> /\ LastLookup(t).outcome.ok) =>
            /\ consecutive_failures[t] = 0
            /\ current_timeout_ms[t] = base_timeout_ms
            /\ pc[t] = "lookup" => inflight[t] = Some(base_timeout_ms)

C9_Witness ==
    \E t \in Tasks :
        /\ Adaptive
        /\ base_timeout_ms = 2000
        /\ Len(lookups[t]) = 17
        /\ LastLookup(t).outcome.ok
        /\ LastLookup(t).timeout = 100
        /\ pc[t] = "lookup"
        /\ inflight[t] = Some(2000)

OtherFailureReturned(t) ==
    /\ FailureReturned(t)
    /\ ~is_timeout(Failure(lookups'[t][Len(lookups'[t])].outcome.error))

\* C10: a lookup failure whose error text is not classified as a timeout
\* leaves consecutive_failures and current_timeout_ms as they were.
C10_OtherFailureKeepsState ==
    [][\A t \in Tasks : OtherFailureReturned(t) =>
            /\ consecutive_failures'[t] = consecutive_failures[t]
            /\ current_timeout_ms'[t] = current_timeout_ms[t]]_vars

C10_Witness ==
    \E t \in Tasks :
        /\ Adaptive
        /\ base_timeout_ms = 2000
        /\ lookups[t] # <<>>
        /\ LastLookup(t).outcome = [ok |-> FALSE, error |-> ErrRefused]
        /\ LastLookup(t).timeout = 500
        /\ consecutive_failures[t] = 8
        /\ current_timeout_ms[t] = 500

\* C11: the current timeout of a probe, and the timeout of every lookup it
\* issues, is at most the base timeout.
C11_NeverAboveBase ==
    \A t \in Tasks :
        /\ current_timeout_ms[t] <= base_timeout_ms
        /\ IsSome(inflight[t]) => Unwrap(inflight[t]) <= base_timeout_ms

\* C12: with adaptive timeout disabled, every lookup is issued with the base
\* timeout, whatever the lookups before it returned.
C12_DisabledKeepsBase ==
    \A t \in Tasks :
        ~Adaptive =>
            /\ current_timeout_ms[t] = base_timeout_ms
            /\ IsSome(inflight[t]) => inflight[t] = Some(base_timeout_ms)
            /\ \A k \in 1..Len(lookups[t]) : lookups[t][k].timeout = base_timeout_ms

C12_Witness ==
    \E t \in Tasks :
        /\ ~Adaptive
        /\ base_timeout_ms = 2000
        /\ Len(lookups[t]) = 17
        /\ \A k \in 1..17 : lookups[t][k].outcome = Sustained
        /\ inflight[t] = Some(2000)

\* The adaptive state that the code computes from the first n lookups of a
\* history h, one after the other, with the timeouts it gives to the lookups
\* 1..n+1 on the way.
RECURSIVE Replay(_, _)
Replay(h, n) ==
    IF n = 0
    THEN [consecutive_failures |-> 0, current_timeout_ms |-> base_timeout_ms,
          timeouts |-> <<base_timeout_ms>>]
    ELSE LET st == Replay(h, n - 1)
             o == h[n].outcome
             nx == IF o.ok
                   THEN OnSuccess(st.consecutive_failures, st.current_timeout_ms)
                   ELSE OnFailure(st.consecutive_failures, st.current_timeout_ms,
                                  Failure(o.error))
         IN  [consecutive_failures |-> nx.consecutive_failures,
              current_timeout_ms |-> nx.current_timeout_ms,
              timeouts |-> Append(st.timeouts, nx.current_timeout_ms)]

\* C13: a probe has at most one lookup in flight; while lookup k+1 is in
\* flight the lookups 1..k have all returned and been recorded, and its
\* timeout is the one computed from their outcomes.
C13_OneLookupAtATime ==
    \A t \in Tasks :
        /\ Len(inflight[t]) <= 1
        /\ inflight[t] # <<>> =>
              /\ pc[t] = "lookup"
              /\ Len(measurements[t]) = Len(lookups[t])
              /\ inflight[t] =
                    Some(Replay(lookups[t], Len(lookups[t])).current_timeout_ms)

C13_Witness ==
    \E t \in Tasks :
        /\ Adaptive
        /\ base_timeout_ms = 2000
        /\ Len(lookups[t]) = 9
        /\ lookups[t][1].outcome.ok
        /\ lookups[t][9].timeout = 2000
        /\ consecutive_failures[t] = 8
        /\ inflight[t] = Some(500)

\* The measurements that the outcomes of a lookup history h give.
MeasurementsOf(h) ==
    [k \in 1..Len(h) |->
        IF h[k].outcome.ok
        THEN Success(h[k].outcome.duration, h[k].outcome.ips[1])
        ELSE Failure(h[k].outcome.error)]

\* The probe of task t is where the outcomes h alone lead it: its streak, its
\* current timeout and the timeout of each of its lookups are those replayed
\* over h, and its ServerResult is the aggregate of the outcomes in h.
OwnOutcomesOnly(t, h) ==
    /\ LET own == Replay(h, Len(h))
       IN  /\ pc[t] \in {"lookup", "push", "finish", "done"} =>
                 /\ consecutive_failures[t] = own.consecutive_failures
                 /\ current_timeout_ms[t] = own.current_timeout_ms
           /\ \A k \in 1..Len(h) : h[k].timeout = own.timeouts[k]
           /\ IsSome(inflight[t]) => inflight[t] = Some(own.timeouts[Len(h) + 1])
    /\ IsSome(server_result[t]) =>
          server_result[t] = Some(from_measurements(servers[t], MeasurementsOf(h)))
    /\ \A i \in 1..Len(results) :
          results[i].server = servers[t] =>
              results[i] = from_measurements(servers[t], MeasurementsOf(h))

\* C14: the timeouts of a probe's lookups and its ServerResult are determined
\* by the outcomes of its own lookups, whatever the other probes were answered
\* and however they were interleaved with it.
C14_StatePerProbe == \A t \in Tasks : OwnOutcomesOnly(t, lookups[t])

C14_Witness ==
    /\ Len(servers) = 2
    /\ pc[1] = "lookup" /\ pc[2] = "lookup"
    /\ Len(lookups[1]) = 8
    /\ \A k \in 1..8 : lookups[1][k].outcome = Sustained
    /\ inflight[1] = Some(500)
    /\ Len(lookups[2]) = 8
    /\ lookups[2][4].outcome.ok
    /\ consecutive_failures[2] = 4
    /\ inflight[2] = Some(2000)

-----------------------------------------------------------------------------
(* from_measurements against the measurement vector it was given *)

Aggregated == IsSome(server_result[1])
Given == measurements[1]
Got == Unwrap(server_result[1])

Successes(ms) == {k \in 1..Len(ms) : ms[k].kind = "Success"}
Failures(ms) == {k \in 1..Len(ms) : ms[k].kind = "Failure"}
Last(S) == CHOOSE k \in S : \A j \in S : j <= k

\* C15: total_requests is the length of the measurement vector and
\* successful_requests the number of its Success elements, so
\* 0 <= successful_requests <= total_requests.
C15_Counts ==
    Aggregated =>
        /\ Got.total_requests = Len(Given)
        /\ Got.successful_requests = Cardinality(Successes(Given))
        /\ 0 <= Got.successful_requests
        /\ Got.successful_requests <= Got.total_requests

C15_Witness ==
    /\ Aggregated
    /\ Len(Given) = 4
    /\ Cardinality(Successes(Given)) = 2
    /\ Got.total_requests = 4
    /\ Got.successful_requests = 2

SuccessDurations(ms) == {ms[k].duration : k \in Successes(ms)}

\* The sum of the durations of the successes at the positions in S.
RECURSIVE SumAt(_, _)
SumAt(ms, S) ==
    IF S = {} THEN 0
    ELSE LET k == CHOOSE j \in S : TRUE
         IN  ms[k].duration + SumAt(ms, S \ {k})

\* C16: with at least one Success, min_time, max_time and avg_time are
\* present; min_time is the smallest and max_time the largest success
\* duration, avg_time is the sum of the success durations divided (integer
\* division) by the number of successes, and min_time <= avg_time <= max_time.
C16_MinMaxAvg ==
    (Aggregated /\ Successes(Given) # {}) =>
        /\ IsSome(Got.min_time) /\ IsSome(Got.max_time) /\ IsSome(Got.avg_time)
        /\ Unwrap(Got.min_time) \in SuccessDurations(Given)
        /\ \A d \in SuccessDurations(Given) : Unwrap(Got.min_time) <= d
        /\ Unwrap(Got.max_time) \in SuccessDurations(Given)
        /\ \A d \in SuccessDurations(Given) : d <= Unwrap(Got.max_time)
        /\ Unwrap(Got.avg_time) =
              SumAt(Given, Successes(Given)) \div Cardinality(Successes(Given))
        /\ Unwrap(Got.min_time) <= Unwrap(Got.avg_time)
        /\ Unwrap(Got.avg_time) <= Unwrap(Got.max_time)

C16_Witness ==
    /\ Aggregated
    /\ Len(Given) = 3
    /\ Given[1] = Success(25, "ipA")
    /\ Given[2].kind = "Failure"
    /\ Given[3] = Success(10, "ipB")
    /\ Got.min_time = Some(10)
    /\ Got.max_time = Some(25)
    /\ Got.avg_time = Some(17)

\* C17: with no Success, min_time, max_time, avg_time and resolved_ip are
\* absent, and last_error is present exactly when the vector holds a Failure.
C17_NoSuccess ==
    (Aggregated /\ Successes(Given) = {}) =>
        /\ Got.min_time = None
        /\ Got.max_time = None
        /\ Got.avg_time = None
        /\ Got.resolved_ip = None
        /\ IsSome(Got.last_error) <=> Failures(Given) # {}

C17_Witness ==
    /\ Aggregated
    /\ Len(Given) = 2
    /\ Successes(Given) = {}
    /\ Got.avg_time = None
    /\ Got.resolved_ip = None
    /\ IsSome(Got.last_error)

C17_WitnessEmpty ==
    /\ Aggregated
    /\ Given = <<>>
    /\ Got.last_error = None

\* C18: resolved_ip is the address of the last Success of the vector by
\* position, whichever success was fastest and whatever failed after it.
C18_LastResolvedAddress ==
    (Aggregated /\ Successes(Given) # {}) =>
        Got.resolved_ip = Some(Given[Last(Successes(Given))].ip)

C18_Witness ==
    /\ Aggregated
    /\ Len(Given) = 3
    /\ Given[1] = Success(10, "ipA")
    /\ Given[2] = Success(25, "ipB")
    /\ Given[3].kind = "Failure"
    /\ Got.resolved_ip = Some("ipB")

\* C19: last_error is the error text of the last Failure of the vector by
\* position, also when successes follow that failure.
C19_LastErrorText ==
    (Aggregated /\ Failures(Given) # {}) =>
        Got.last_error = Some(Given[Last(Failures(Given))].error)

C19_Witness ==
    /\ Aggregated
    /\ Len(Given) = 3
    /\ Given[1] = Failure(ErrRequestTimedOut)
    /\ Given[2] = Failure(ErrRefused)
    /\ Given[3].kind = "Success"
    /\ Got.last_error = Some(ErrRefused)

C20_WitnessEmpty ==
    /\ Aggregated
    /\ Got.total_requests = 0
    /\ success_rate(Got).num = 0

\* C21: for a ServerResult built by from_measurements, all_failed() holds
\* exactly when successful_requests = 0, and that exactly when avg_time is
\* absent.
C21_AllFailed ==
    Aggregated =>
        /\ all_failed(Got) <=> Got.successful_requests = 0
        /\ Got.successful_requests = 0 <=> Got.avg_time = None

C21_Witness ==
    /\ Aggregated
    /\ Len(Given) = 3
    /\ Successes(Given) = {}
    /\ all_failed(Got)
    /\ Got.avg_time = None

C21_WitnessNot ==
    /\ Aggregated
    /\ Len(Given) = 3
    /\ Cardinality(Successes(Given)) = 1
    /\ ~all_failed(Got)
    /\ IsSome(Got.avg_time)

-----------------------------------------------------------------------------
(* The ranked list that run() returns *)

Ranked == Unwrap(ret).servers

\* C22: in the returned BenchmarkResult every server without a success comes
\* after every server with one, and the servers with a success are in
\* non-decreasing order of avg_time.
C22_RankedByAvg ==
    Returned =>
        \A i \in 1..Len(Ranked) : \A j \in 1..Len(Ranked) :
            i < j =>
                /\ ~(all_failed(Ranked[i]) /\ ~all_failed(Ranked[j]))
                /\ (~all_failed(Ranked[i]) /\ ~all_failed(Ranked[j])) =>
                      Unwrap(Ranked[i].avg_time) <= Unwrap(Ranked[j].avg_time)

C22_Witness ==
    /\ Returned
    /\ Len(results) = 3
    /\ all_failed(results[1])
    /\ results[2].avg_time = Some(20)
    /\ results[3].avg_time = Some(10)
    /\ Ranked = <<results[3], results[2], results[1]>>

\* The position of the result of server srv in the list L.
PosIn(L, srv) == CHOOSE i \in 1..Len(L) : L[i].server = srv

\* The ranked list holds the pushed results, and two of them with the same
\* sort key are in the order in which they were pushed.
StableRanking ==
    /\ Len(Ranked) = Len(results)
    /\ \A i \in 1..Len(results) : \E k \in 1..Len(Ranked) : Ranked[k] = results[i]
    /\ \A i \in 1..Len(results) : \A j \in 1..Len(results) :
          (i < j /\ sort_key(results[i]) = sort_key(results[j])) =>
              PosIn(Ranked, results[i].server) < PosIn(Ranked, results[j].server)

\* The shared collection only grows at its end, by the result of the probe
\* that pushes.
PushedInCompletionOrder ==
    results' # results =>
        \E t \in Tasks :
            /\ pc[t] = "push" /\ pc'[t] = "finish"
            /\ results' = Append(results, Unwrap(server_result[t]))

\* C23: the shared collection holds the results in the order in which the
\* probes pushed them, and ranking is stable: results with equal sort key
\* keep their push order in the returned BenchmarkResult.
C23_StableInPushOrder ==
    /\ [](Returned => StableRanking)
    /\ [][PushedInCompletionOrder]_vars

C23_Witness ==
    /\ Returned
    /\ Len(results) = 3
    /\ results[1].server = servers[3]
    /\ results[2].server = servers[2]
    /\ results[3].server = servers[1]
    /\ all_failed(results[1])
    /\ results[2].avg_time = Some(10)
    /\ all_failed(results[3])
    /\ Ranked = <<results[2], results[1], results[3]>>

-----------------------------------------------------------------------------
(* The queries of the returned BenchmarkResult *)

Asked(name) == IsSome(queried) /\ Unwrap(queried).query = name
Answer == Unwrap(queried).answer

\* C24: fastest() gives the first element of the ranked list, and nothing
\* exactly when the list is empty; when some server has a success, the one it
\* gives has an avg_time not larger than that of any server that has one.
C24_Fastest ==
    Asked("fastest") =>
        /\ Answer = None <=> Ranked = <<>>
        /\ Ranked # <<>> => Answer = Some(Ranked[1])
        /\ (\E i \in 1..Len(Ranked) : ~all_failed(Ranked[i])) =>
              /\ IsSome(Answer)
              /\ IsSome(Unwrap(Answer).avg_time)
              /\ \A i \in 1..Len(Ranked) :
                    IsSome(Ranked[i].avg_time) =>
                        Unwrap(Unwrap(Answer).avg_time) <= Unwrap(Ranked[i].avg_time)

C24_Witness ==
    /\ Asked("fastest")
    /\ Len(results) = 3
    /\ all_failed(results[1])
    /\ results[2].avg_time = Some(20)
    /\ results[3].avg_time = Some(10)
    /\ Answer = Some(results[3])

C24_WitnessEmpty ==
    /\ Asked("fastest")
    /\ Ranked = <<>>
    /\ Answer = None

\* A is the list L without the elements that fail the test P, in the order of L.
IsFilterOf(A, L, P(_)) ==
    LET kept == {i \in 1..Len(L) : P(L[i])}
        nth(k) == CHOOSE i \in kept : Cardinality({j \in kept : j <= i}) = k
    IN  /\ Len(A) = Cardinality(kept)
        /\ \A k \in 1..Len(A) : A[k] = L[nth(k)]

AllSucceeded(r) == r.total_requests > 0 /\ r.successful_requests = r.total_requests
NoneSucceeded(r) == r.successful_requests = 0

\* A query leaves the BenchmarkResult, and everything else of the run, as it was.
QueryOnlyReads ==
    queried' # queried =>
        UNCHANGED <<config, servers, mainpc, spawned, joined, ret, permits, arc_refs,
                    results, taskvars>>

\* C25: fully_successful() gives exactly the servers whose success rate is
\* at least 100 %, completely_failed() exactly the servers without a success,
\* both in ranked order, and neither changes the BenchmarkResult.
C25_Queries ==
    /\ [](Asked("fully_successful") => IsFilterOf(Answer, Ranked, AllSucceeded))
    /\ [](Asked("completely_failed") => IsFilterOf(Answer, Ranked, NoneSucceeded))
    /\ [][QueryOnlyReads]_vars

C25_Witness ==
    /\ Asked("fully_successful")
    /\ config.requests = 2
    /\ Len(Ranked) = 2
    /\ Ranked[1].successful_requests = 1
    /\ Ranked[2].successful_requests = 2
    /\ Answer = <<Ranked[2]>>

C25_WitnessFailed ==
    /\ Asked("completely_failed")
    /\ Len(Ranked) = 3
    /\ ~all_failed(Ranked[1])
    /\ all_failed(Ranked[2])
    /\ all_failed(Ranked[3])
    /\ Answer = <<Ranked[2], Ranked[3]>>

-----------------------------------------------------------------------------
(* is_timeout *)

Classified == measurements[1][1]

\* The streak of the probe goes up by one in this step.
StreakAdvances == consecutive_failures'[1] = consecutive_failures[1] + 1

\* C26: is_timeout() is true for a Failure exactly when its text, lower-cased,
\* holds "timeout" or "timed out", and false for every other Failure and every
\* Success; only a failure for which it is true advances the adaptive streak.
C26_IsTimeout ==
    /\ [](Asked("is_timeout") =>
            Answer = (Classified.kind = "Failure" /\ Classified.error \in TimeoutTexts))
    /\ [][/\ consecutive_failures'[1] > consecutive_failures[1] =>
                (Classified.kind = "Failure" /\ Classified.error \in TimeoutTexts)
          /\ (queried' # queried /\ Adaptive /\ Classified.kind = "Failure"
                /\ Classified.error \in TimeoutTexts) => StreakAdvances]_vars

C26_Witness ==
    /\ Asked("is_timeout")
    /\ Classified = Failure(<<"D","N","S"," ","T","I","M","E","O","U","T">>)
    /\ Answer = TRUE
    /\ consecutive_failures[1] = 8
    /\ current_timeout_ms[1] = 500

C26_WitnessOther ==
    /\ Asked("is_timeout")
    /\ Classified = Failure(<<"t","i","m","e","d","o","u","t">>)
    /\ Answer = FALSE
    /\ consecutive_failures[1] = 7

-----------------------------------------------------------------------------
(* The progress bar *)

\* The bar of a probe exists only in the table format and shows the number
\* of measurements taken; it is cleared when the probe ends, and left as it
\* is when the probe panics.
BarShowsProgress(t) ==
    IF config.format = "Table" /\ pc[t] \in {"lookup", "push", "finish", "panicked"}
    THEN pb[t] = Some(Len(measurements[t]))
    ELSE pb[t] = None

\* A probe past the gate is never held up: whatever its bar, the return of
\* its lookup, its push and its end can happen.
NeverWaitsOnBar(t) ==
    /\ pc[t] = "lookup" => ENABLED (LookupOk(t) \/ LookupEmpty(t) \/ LookupErr(t))
    /\ pc[t] = "push" => ENABLED Push(t)
    /\ pc[t] = "finish" => ENABLED Finish(t)

\* C27: with or without the progress bar a probe issues the lookups, with
\* the timeouts, and builds the ServerResult that its lookup outcomes and the
\* configuration determine, and it never waits on the bar.
C27_SinkObservational ==
    \A t \in Tasks :
        /\ OwnOutcomesOnly(t, lookups[t])
        /\ BarShowsProgress(t)
        /\ NeverWaitsOnBar(t)

C27_Witness ==
    /\ config.format = "Table"
    /\ pc[1] = "lookup"
    /\ Len(lookups[1]) = 8
    /\ \A k \in 1..8 : lookups[1][k].outcome = Sustained
    /\ inflight[1] = Some(500)
    /\ pb[1] = Some(8)

C27_WitnessAbsent ==
    /\ config.format = "Json"
    /\ pc[1] = "lookup"
    /\ Len(lookups[1]) = 8
    /\ \A k \in 1..8 : lookups[1][k].outcome = Sustained
    /\ inflight[1] = Some(500)
    /\ pb[1] = None

-----------------------------------------------------------------------------
(* collect_servers *)

Sources == Unwrap(queried).given

\* The servers offered to collect_servers, in the order base list, system
\* DNS, gateway; a source that is skipped or fails offers nothing.
OfferedServers ==
    Sources.base.servers
    \o (IF ~config.skip_system /\ Sources.system.ok THEN Sources.system.servers ELSE <<>>)
    \o (IF ~config.skip_gateway /\ Sources.gateway.ok THEN Sources.gateway.servers ELSE <<>>)

\* L is the list O without the entries whose address occurs earlier in O.
FirstOccurrences(L, O) ==
    LET first == {i \in 1..Len(O) : \A j \in 1..(i - 1) : O[j].ip # O[i].ip}
        nth(k) == CHOOSE i \in first : Cardinality({j \in first : j <= i}) = k
    IN  /\ Len(L) = Cardinality(first)
        /\ \A k \in 1..Len(L) : L[k] = O[nth(k)]

\* C28: the list collect_servers returns has no two entries with the same IP
\* address, whatever their ports; of the entries offered with the same
\* address the first is kept, the sources taken in the order base list,
\* system DNS, gateway.
C28_DedupByIp ==
    (Asked("collect_servers") /\ Answer.ok) =>
        /\ \A i \in 1..Len(servers) : \A j \in 1..Len(servers) :
              i # j => servers[i].ip # servers[j].ip
        /\ FirstOccurrences(servers, OfferedServers)

C28_Witness ==
    /\ Asked("collect_servers")
    /\ Sources.base.servers =
          <<DnsServer("Custom", "ip1", 53, "Custom"),
            DnsServer("Custom", "ip1", 5353, "Custom")>>
    /\ Sources.system.servers =
          <<DnsServer("System", "ip2", 53, "System"),
            DnsServer("System", "ip1", 53, "System")>>
    /\ Sources.gateway.servers = <<DnsServer("Gateway", "ip2", 53, "Gateway")>>
    /\ ~config.skip_system /\ ~config.skip_gateway
    /\ servers = <<DnsServer("Custom", "ip1", 53, "Custom"),
                   DnsServer("System", "ip2", 53, "System")>>

-----------------------------------------------------------------------------
(* Config::merge *)

OptionFields ==
    {"domain", "workers", "requests", "timeout", "protocol", "name_server_ip",
     "lookup_ip", "format", "style"}
FlagFields == {"skip_system", "skip_gateway", "disable_adaptive_timeout"}

Merged == Asked("merge")
Before == Unwrap(queried).given.self
Overrides == Unwrap(queried).given.other

\* C29: merge overwrites exactly the fields the overrides set and leaves the
\* others as they were; a flag is switched on by the overrides and never
\* off; merging the same overrides a second time changes nothing.
C29_Merge ==
    Merged =>
        /\ \A f \in OptionFields :
              config[f] = IF Overrides[f] = None THEN Before[f] ELSE Unwrap(Overrides[f])
        /\ config.custom_servers =
              IF Overrides.custom_servers = None
              THEN Before.custom_servers ELSE Overrides.custom_servers
        /\ \A f \in FlagFields :
              /\ config[f] <=> (Before[f] \/ Overrides[f])
              /\ Before[f] => config[f]
        /\ DOMAIN config = DOMAIN Before
        /\ config = Answer

C29_Witness ==
    /\ Merged
    /\ Unwrap(queried).times = 1
    /\ Before.skip_system /\ ~Overrides.skip_system /\ config.skip_system
    /\ ~Before.skip_gateway /\ Overrides.skip_gateway /\ config.skip_gateway
    /\ Overrides.domain = Some("test.com") /\ config.domain = "test.com"
    /\ Overrides.workers = Some(4) /\ config.workers = 4
    /\ Overrides.requests = None /\ config.requests = DEFAULT_REQUESTS
    /\ Before.custom_servers = Some("stored.txt")
    /\ Overrides.custom_servers = None
    /\ config.custom_servers = Some("stored.txt")

C29_WitnessTwice ==
    /\ Merged
    /\ Unwrap(queried).times = 2
    /\ Overrides.timeout = Some(5) /\ config.timeout = 5
    /\ Overrides.disable_adaptive_timeout /\ config.disable_adaptive_timeout
    /\ config = Answer

-----------------------------------------------------------------------------
(* The shared result collection *)

\* The positions of the collection that hold a result of the probe of task t.
PushedBy(t) == {i \in 1..Len(results) : results[i].server = servers[t]}

\* A probe has pushed at most once, and only the aggregate of its
\* config.requests measurements.
PushesOnceWhenDone(t) ==
    /\ Cardinality(PushedBy(t)) <= 1
    /\ \A i \in PushedBy(t) :
          /\ pc[t] \in {"finish", "done"}
          /\ Len(measurements[t]) = config.requests
          /\ results[i] = from_measurements(servers[t], measurements[t])

\* The collection changes only by one probe appending its own result in one
\* step: what it held stays where it was.
AppendOnly ==
    results' # results =>
        \E t \in Tasks :
            /\ pc[t] = "push" /\ pc'[t] = "finish"
            /\ PushedBy(t) = {}
            /\ results' = Append(results, Unwrap(server_result[t]))
            /\ \A u \in Tasks \ {t} : pc'[u] = pc[u]

\* What holds of the pushes on every path, the panicking ones included.
PushesSafe ==
    /\ [](\A t \in Tasks : PushesOnceWhenDone(t))
    /\ [][AppendOnly]_vars

\* C30: each probe task pushes exactly once, after its last measurement has
\* been recorded and aggregated, exactly one ServerResult; nothing in the
\* collection is changed or removed afterwards, and an append is one step of
\* one probe.
C30_OnePushPerProbe ==
    /\ [](\A t \in Tasks : PushesOnceWhenDone(t))
    /\ [](\A t \in Tasks : Ended(t) => Cardinality(PushedBy(t)) = 1)
    /\ [][AppendOnly]_vars

-----------------------------------------------------------------------------
(* The returned BenchmarkResult and the paths to it *)

\* C31: in the returned BenchmarkResult requests_per_server is
\* config.requests, and every ServerResult in it has total_requests equal to
\* it, whatever its lookups returned.
C31_TotalIsRequests ==
    Returned =>
        /\ Unwrap(ret).requests_per_server = config.requests
        /\ \A i \in 1..Len(Ranked) :
              Ranked[i].total_requests = Unwrap(ret).requests_per_server

C31_Witness ==
    /\ Returned
    /\ config.requests = 2
    /\ Len(Ranked) = 2
    /\ Ranked[1].successful_requests = 1
    /\ Ranked[1].total_requests = 2
    /\ Ranked[2].successful_requests = 0
    /\ Ranked[2].total_requests = 2
    /\ Unwrap(ret).requests_per_server = 2

\* The lookups of history h that returned after its last successful one.
SinceLastSuccess(h) ==
    {k \in 1..Len(h) : \A j \in k..Len(h) : ~h[j].outcome.ok}

\* Those of them that failed with the timeout text.
TimeoutsSinceSuccess(h) ==
    {k \in SinceLastSuccess(h) : h[k].outcome.error = ErrRequestTimedOut}

\* C32: with adaptive timeout enabled the streak is the number of timeout
\* failures since the last success; other failures between them do not reset
\* it, so after 8 timeout failures with other failures in between and no
\* success the next lookup gets at most 500 ms.
C32_StreakSinceSuccess ==
    \A t \in Tasks :
        (Adaptive /\ pc[t] \in {"lookup", "push", "finish", "done"}) =>
            /\ consecutive_failures[t] = Cardinality(TimeoutsSinceSuccess(lookups[t]))
            /\ (Cardinality(TimeoutsSinceSuccess(lookups[t])) >= 8 /\ IsSome(inflight[t])) =>
                  Unwrap(inflight[t]) <= 500

C32_Witness ==
    \E t \in Tasks :
        /\ Adaptive
        /\ base_timeout_ms = 2000
        /\ Len(lookups[t]) = 10
        /\ SinceLastSuccess(lookups[t]) = 1..10
        /\ lookups[t][3].outcome.error = ErrRefused
        /\ lookups[t][6].outcome.error = ErrRefused
        /\ Cardinality(TimeoutsSinceSuccess(lookups[t])) = 8
        /\ lookups[t][10].timeout = 2000
        /\ inflight[t] = Some(500)

\* The lookup of task t returns Ok with an empty address list in this step.
EmptyReturned(t) ==
    /\ Len(lookups'[t]) = Len(lookups[t]) + 1
    /\ lookups'[t][Len(lookups'[t])].outcome.ok
    /\ lookups'[t][Len(lookups'[t])].outcome.ips = <<>>

Panicked(t) == pc[t] = "panicked"

\* C33: a lookup that reports success without an address makes the probe
\* task panic before the measurement is recorded: its permit is released,
\* nothing is pushed for its server, no other task is touched, and run()
\* still returns, with the results of the other probes only.
C33_EmptyAnswerAborts ==
    /\ [][\A t \in Tasks : EmptyReturned(t) =>
            /\ pc'[t] = "panicked"
            /\ measurements'[t] = measurements[t]
            /\ server_result'[t] = None
            /\ permit[t] /\ ~permit'[t]
            /\ permits' = permits + 1
            /\ results' = results
            /\ \A u \in Tasks \ {t} : TaskState(u)' = TaskState(u)]_vars
    /\ [](\A t \in Tasks : Panicked(t) => PushedBy(t) = {} /\ ~permit[t])
    /\ [](mainpc # "panicked")
    /\ [](Returned =>
            /\ \A t \in Tasks :
                  ~Panicked(t) => pc[t] = "done" /\ Cardinality(PushedBy(t)) = 1
            /\ (\E t \in Tasks : Panicked(t)) => Len(Ranked) < Len(servers))
    /\ ((\E t \in Tasks : Panicked(t)) ~> Returned)

C33_Witness ==
    /\ Returned
    /\ Len(servers) = 3
    /\ Panicked(2)
    /\ lookups[2] # <<>> /\ LastLookup(2).outcome.ips = <<>>
    /\ pc[1] = "done" /\ pc[3] = "done"
    /\ Len(Ranked) = 2
    /\ permits = config.workers

\* C34: with a worker count of 0 and at least one server the semaphore
\* has no permit to give: no probe is ever admitted, no lookup is ever
\* issued, nothing is pushed, and run() neither returns nor panics.
C34_ZeroWorkersNeverReturns ==
    (config.workers = 0 /\ Len(servers) > 0) =>
        /\ permits = 0
        /\ Admitted = {}
        /\ \A t \in Tasks :
              /\ pc[t] \in {"unspawned", "acquire"}
              /\ lookups[t] = <<>>
              /\ inflight[t] = None
              /\ measurements[t] = <<>>
        /\ results = <<>>
        /\ mainpc \notin {"returned", "panicked"}
        /\ ret = None

C34_Witness ==
    /\ config.workers = 0
    /\ Len(servers) = 2
    /\ spawned = 2
    /\ mainpc = "join"
    /\ joined = 0
    /\ \A t \in Tasks : pc[t] = "acquire" /\ ~ENABLED Acquire(t)
    /\ ~ENABLED JoinNext
    /\ ~ENABLED Return

\* The task t gives its permit back in this step.
Releases(t) == permit[t] /\ ~permit'[t]

\* The task t is admitted in this step.
Admits(t) == ~permit[t] /\ permit'[t]

\* C35: a probe holds its permit from admission until its task ends. In
\* every state the permits available plus the permits held equal the worker
\* count, a task holds a permit exactly while it is between admission and
\* its end, a permit comes back only in the step that ends an admitted task
\* (done, with its result in the collection, or panicked), and a probe is
\* admitted only while fewer than W permits are held, so one that found all
\* permits taken gets in only after such a step.
C35_PermitHeldToTheEnd ==
    /\ [](permits + Cardinality(Admitted) = config.workers)
    /\ [](\A t \in Tasks :
            permit[t] <=> pc[t] \notin {"unspawned", "acquire", "done", "panicked"})
    /\ [][/\ \A t \in Tasks :
                Releases(t) =>
                    /\ permits' = permits + 1
                    /\ \/ pc'[t] = "done" /\ Cardinality(PushedBy(t)) = 1
                       \/ pc'[t] = "panicked"
          /\ permits' > permits => \E t \in Tasks : Releases(t)
          /\ \A t \in Tasks :
                Admits(t) =>
                    /\ Cardinality(Admitted) < config.workers
                    /\ permits' = permits - 1]_vars

C35_Witness ==
    /\ config.workers = 2
    /\ Len(servers) = 3
    /\ config.requests = 1
    /\ pc[1] = "done" /\ Cardinality(PushedBy(1)) = 1
    /\ pc[2] = "lookup" /\ permit[2]
    /\ pc[3] = "lookup" /\ permit[3]
    /\ permits = 0

\* C36: when the returned list is not empty and no server in it has a
\* success, fastest() still gives a server, the one whose probe pushed its
\* result first, and that server has no avg_time.
C36_FastestOfAllFailed ==
    (Asked("fastest") /\ Ranked # <<>> /\ \A i \in 1..Len(Ranked) : all_failed(Ranked[i])) =>
        /\ IsSome(Answer)
        /\ Unwrap(Answer) = results[1]
        /\ all_failed(Unwrap(Answer))
        /\ Unwrap(Answer).avg_time = None

C36_Witness ==
    /\ Asked("fastest")
    /\ Len(Ranked) = 2
    /\ \A i \in 1..2 : all_failed(Ranked[i]) /\ Ranked[i].total_requests = 2
    /\ PushedBy(2) = {1}
    /\ PushedBy(1) = {2}
    /\ Answer = Some(results[1])
    /\ Unwrap(Answer).avg_time = None

\* The elements of a list.
Elems(L) == {L[i] : i \in 1..Len(L)}

\* C37: for the BenchmarkResult that run() returned, no server is reported
\* both by fully_successful() and by completely_failed(), and a server with
\* total_requests = 0 is reported by completely_failed() and not by
\* fully_successful(); an answer given to the caller is that list.
C37_DisjointQueries ==
    Returned =>
        LET b == Unwrap(ret)
            full == Elems(fully_successful(b))
            failed == Elems(completely_failed(b))
        IN  /\ full \cap failed = {}
            /\ \A i \in 1..Len(b.servers) :
                  b.servers[i].total_requests = 0 =>
                      /\ b.servers[i] \in failed
                      /\ b.servers[i] \notin full
            /\ Asked("fully_successful") => Elems(Answer) = full
            /\ Asked("completely_failed") => Elems(Answer) = failed

C37_Witness ==
    /\ Asked("completely_failed")
    /\ config.requests = 0
    /\ Len(Ranked) = 2
    /\ \A i \in 1..2 : Ranked[i].total_requests = 0
    /\ Answer = Ranked
    /\ fully_successful(Unwrap(ret)) = <<>>

C37_WitnessMixed ==
    /\ Asked("fully_successful")
    /\ config.requests = 2
    /\ Len(Ranked) = 2
    /\ Answer = <<Ranked[1]>>
    /\ completely_failed(Unwrap(ret)) = <<Ranked[2]>>

\* The largest request count a Config can hold (requests: u16); the streak
\* counter is a u32.
U16Max == 65535

\* C38: with adaptive timeout enabled, the current timeout of a probe is
\* always the base timeout, min(base, 500 ms) or 100 ms, which one being
\* decided by the streak alone (base below 8, the reduced one from 8 to 15,
\* the minimal one from 16 on), and the streak never exceeds the number of
\* lookups that have returned, hence neither the request count nor u32.
C38_TimeoutValues ==
    \A t \in Tasks :
        (Adaptive /\ pc[t] \in {"lookup", "push", "finish", "done", "panicked"}) =>
            /\ current_timeout_ms[t] \in
                  {base_timeout_ms, Min(base_timeout_ms, REDUCED_TIMEOUT_MS), MINIMAL_TIMEOUT_MS}
            /\ consecutive_failures[t] < REDUCE_TIMEOUT_AFTER_FAILURES =>
                  current_timeout_ms[t] = base_timeout_ms
            /\ (/\ consecutive_failures[t] >= REDUCE_TIMEOUT_AFTER_FAILURES
                /\ consecutive_failures[t] < MINIMIZE_TIMEOUT_AFTER_FAILURES) =>
                  current_timeout_ms[t] = Min(base_timeout_ms, REDUCED_TIMEOUT_MS)
            /\ consecutive_failures[t] >= MINIMIZE_TIMEOUT_AFTER_FAILURES =>
                  current_timeout_ms[t] = MINIMAL_TIMEOUT_MS
            /\ consecutive_failures[t] <= Len(lookups[t])
            /\ Len(lookups[t]) <= config.requests
            /\ config.requests <= U16Max

C38_Witness ==
    \E t \in Tasks :
        /\ Adaptive
        /\ base_timeout_ms = 2000
        /\ pc[t] = "lookup"
        /\ Len(lookups[t]) = 17
        /\ lookups[t][1].outcome.ok
        /\ consecutive_failures[t] = 16
        /\ current_timeout_ms[t] = 100

C38_WitnessZeroBase ==
    \E t \in Tasks :
        /\ Adaptive
        /\ base_timeout_ms = 0
        /\ consecutive_failures[t] = 16
        /\ current_timeout_ms[t] = 100

\* The spawned tasks that have not ended: each holds one clone of the Arc.
Live == {t \in Tasks : pc[t] \notin {"unspawned", "done", "panicked"}}

\* C39: the Arc around the results is held by run() and by each live task
\* and by nobody else, so when the join loop has ended run() is the only
\* holder and try_unwrap succeeds: run() never panics there, in any
\* interleaving, also when a probe task panicked.
C39_SoleOwnerAfterJoin ==
    /\ arc_refs = 1 + Cardinality(Live)
    /\ (mainpc = "join" /\ JoinSetEmpty) => (Live = {} /\ arc_refs = 1)
    /\ mainpc # "panicked"
    /\ Returned => arc_refs = 1

C39_Witness ==
    /\ Returned
    /\ Len(servers) = 2
    /\ Panicked(1)
    /\ pc[2] = "done"
    /\ arc_refs = 1
    /\ Len(Ranked) = 1

C39_WitnessBeforeReturn ==
    /\ mainpc = "join"
    /\ JoinSetEmpty
    /\ Len(servers) = 3
    /\ \E t \in Tasks : Panicked(t)
    /\ arc_refs = 1

====
